---- MODULE Spec2Model ----
(***************************************************************************)
(* TwistOptimizer (src/optimizer.py): the optimizer object, the objective  *)
(* function _get_induced_drag that drives the aerodynamic solver, the      *)
(* outer minimisation in optimize, and get_distributions.                  *)
(*                                                                         *)
(* The aerodynamic solver (machupX) and the minimiser (scipy.optimize) are *)
(* libraries outside the repository.  The solver is a deterministic        *)
(* function of what it is given; it is represented by integer stand-ins    *)
(* (TrimAlpha, WingCD and the three failure predicates).  The minimiser is *)
(* the environment: it evaluates the objective at x0 first and then at any *)
(* candidates it likes, and returns one of the vectors it evaluated with   *)
(* the objective value it saw there.                                       *)
(*                                                                         *)
(* Python attributes that may be absent are modelled as optional values:   *)
(* <<>> is "not set", <<v>> is "set to v".                                 *)
(***************************************************************************)
EXTENDS Integers, Sequences, FiniteSets, TLC

\* ---- bounds of the model ------------------------------------------------
MaxN == 2
MaxEvals == 3
MaxRuns == 2

\* ---- program constants --------------------------------------------------
\* The factor of line 93 and the divisor of line 64.  Drag coefficients are
\* whole numbers of drag counts here, so scaling and unscaling are exact;
\* the rounding of the float product and quotient is not represented.
ObjectiveScale == 1000
ReportScale == 1000

VARIABLES pc, heap, self, evals, result, ret, dist, outcome, runs, sceneCount

vars == <<pc, heap, self, evals, result, ret, dist, outcome, runs, sceneCount>>

Unset == <<>>
IsSet(o) == o /= <<>>

\* ---- numbers ------------------------------------------------------------
\* A coordinate is a fraction <<numerator, denominator>>.
RatEq(a, b) == a[1] * b[2] = b[1] * a[2]

RECURSIVE SumSeq(_)
SumSeq(q) == IF q = <<>> THEN 0 ELSE Head(q) + SumSeq(Tail(q))

\* numpy.linspace(0.0, stop, N): N evenly spaced points, both ends included.
linspace(stop, N) ==
    [i \in 1..N |-> IF N = 1 THEN <<0, 1>>
                    ELSE <<(i - 1) * stop[1], (N - 1) * stop[2]>>]

\* numpy.zeros(N)
zeros(N) == [i \in 1..N |-> 0]

\* the twist angles (degrees) the minimiser proposes at a station
TwistVals == {0, 1}
TwistVectors(N) == [1..N -> TwistVals]

\* ---- the geometry dictionaries -----------------------------------------
\* A wing input: the names of its sections, whether the rest of the input
\* is acceptable to the solver, and the twist table of design_section, rows
\* of <<station, degrees>> (no rows when the dictionary has no twist entry).
Geometries ==
    [sections : {{"design_section", "winglets"}, {"winglets"}},
     wellFormed : BOOLEAN,
     twist : {<< >>, << << <<0, 1>>, 2 >>, << <<1, 1>>, 2 >> >>}]

\* self._wing_input["wings"]["design_section"] does not raise KeyError
HasDesignSection_always(g) == TRUE
HasDesignSection(g) == "design_section" \in g.sections

\* copy.deepcopy(self._wing_input): a new object, equal to the old one.
\* The result is the heap after the call and the reference returned.
deepcopy_alias(h, ref) == [heap |-> h, ref |-> ref]
deepcopy(h, ref) ==
    [heap |-> ("wing_dict" :> h[ref]) @@ h, ref |-> "wing_dict"]

\* np.concatenate((s[:,np.newaxis], twist[:,np.newaxis]), axis=1)
TwistArray(s, twist) == [i \in 1..Len(twist) |-> <<s[i], twist[i]>>]

TwistColumn(tab) == [i \in 1..Len(tab) |-> tab[i][2]]
StationColumn(tab) == [i \in 1..Len(tab) |-> tab[i][1]]

\* ---- the aerodynamic solver (external library) --------------------------
\* A scene: its identity (the ordinal of its construction), the density it
\* was built with and the aircraft added to it, each with the twist table
\* of its design section, its velocity and its angle of attack.
\* The stand-ins below are deterministic functions of the scene alone.

\* mx.Scene(...) accepts the atmosphere description
ValidDensity(rho) == rho > 0

Wing(scene) == scene.aircraft[Len(scene.aircraft)]

\* the influence of the other aircraft of the scene on the last one added
RECURSIVE Interference(_)
Interference(others) ==
    IF others = <<>> THEN 0
    ELSE 1 + SumSeq(TwistColumn(Head(others).twist)) + Interference(Tail(others))

Others(scene) == SubSeq(scene.aircraft, 1, Len(scene.aircraft) - 1)

\* the angle of attack at which the scene produces the lift coefficient CL
TrimAlpha(scene, CL) ==
    4 * CL - SumSeq(TwistColumn(Wing(scene).twist)) - Interference(Others(scene))

\* no angle of attack achieves CL
TrimDiverges(scene, CL) == TrimAlpha(scene, CL) < 3

\* the force solve does not converge
SolveDiverges(scene) ==
    Wing(scene).alpha * SumSeq(TwistColumn(Wing(scene).twist)) >= 7

\* FM["wing"]["total"]["CD"] of the scene in its current state
WingCD(scene) ==
    LET t == TwistColumn(Wing(scene).twist)
        a == Wing(scene).alpha
    IN  10 + SumSeq([i \in 1..Len(t) |-> i * (a + t[i]) * (a + t[i])])
           + Interference(Others(scene))

\* ---- _get_induced_drag --------------------------------------------------
\* The solver calls of one objective evaluation, in program order.
ObjectiveCalls_solveBeforeTrim ==
    <<"Scene", "add_aircraft", "solve_forces", "target_CL">>
ObjectiveCalls == <<"Scene", "add_aircraft", "target_CL", "solve_forces">>

\* self._scene = mx.Scene({...density : self._rho...}): the object bound to
\* self._scene by an evaluation, given the one bound before and the number
\* of scenes constructed so far.
NewScene_cached(old, rho, count) ==
    IF IsSet(old) THEN old[1]
    ELSE [id |-> count + 1, density |-> rho, aircraft |-> <<>>]
NewScene(old, rho, count) ==
    [id |-> count + 1, density |-> rho, aircraft |-> <<>>]

\* A call on the scene of identity id (0: no scene object).
Call(op, id) == [op |-> op, scene |-> id]
Raise(st, op, id, exc) ==
    [st EXCEPT !.calls = Append(@, Call(op, id)), !.raised = exc]

\* One statement of lines 84-91 on the evaluation state st: the attributes
\* _scene and alpha of self, the local FM, the calls made so far, the
\* exception raised (if any) and the number of scenes constructed.
Step(op, st, wing_dict, me) ==
    IF op = "Scene" THEN
        IF ~ValidDensity(me.rho[1])
        THEN Raise(st, op, 0, "SolverError")
        ELSE LET sc == NewScene(st.scene, me.rho[1], st.count)
             IN  [st EXCEPT !.scene = <<sc>>,
                            !.count = IF sc.id > @ THEN sc.id ELSE @,
                            !.calls = Append(@, Call(op, sc.id))]
    ELSE IF ~IsSet(st.scene) THEN Raise(st, op, 0, "AttributeError")
    ELSE LET sc == st.scene[1] IN
    IF op = "add_aircraft" THEN
        IF ~wing_dict.wellFormed THEN Raise(st, op, sc.id, "SolverError")
        ELSE [st EXCEPT !.scene = <<[sc EXCEPT !.aircraft =
                            Append(@, [name |-> "wing",
                                       twist |-> wing_dict.twist,
                                       velocity |-> me.V[1],
                                       alpha |-> 0])]>>,
                        !.calls = Append(@, Call(op, sc.id))]
    ELSE IF sc.aircraft = <<>> THEN Raise(st, op, sc.id, "SolverError")
    ELSE IF op = "target_CL" THEN
        IF TrimDiverges(sc, me.CL[1]) THEN Raise(st, op, sc.id, "TrimError")
        ELSE LET a == TrimAlpha(sc, me.CL[1]) IN
             [st EXCEPT !.scene = <<[sc EXCEPT
                                !.aircraft[Len(sc.aircraft)].alpha = a]>>,
                        !.alpha = <<[value |-> a, scene |-> sc.id]>>,
                        !.calls = Append(@, Call(op, sc.id))]
    ELSE \* solve_forces
        IF SolveDiverges(sc) THEN Raise(st, op, sc.id, "SolverError")
        ELSE [st EXCEPT !.FM = <<[CD |-> WingCD(sc), scene |-> sc.id,
                                  after |-> Len(st.calls)]>>,
                        !.calls = Append(@, Call(op, sc.id))]

RECURSIVE RunCalls(_, _, _, _)
RunCalls(ops, st, wing_dict, me) ==
    IF ops = <<>> \/ st.raised /= "" THEN st
    ELSE RunCalls(Tail(ops), Step(Head(ops), st, wing_dict, me), wing_dict, me)

\* The whole of _get_induced_drag(twist) on object me and heap h: the heap,
\* the attributes and the value returned (none when an exception leaves).
GetInducedDrag(me, h, count, twist) ==
    LET s == linspace(<<1, 1>>, me.N[1])
        twist_array == TwistArray(s, twist)
        cp == deepcopy(h, me.wing_input[1])
        h2 == [cp.heap EXCEPT ![cp.ref].twist = twist_array]
        st == RunCalls(ObjectiveCalls,
                       [scene |-> me.scene, alpha |-> me.alpha, FM |-> <<>>,
                        calls |-> <<>>, raised |-> "", count |-> count],
                       h2[cp.ref], me)
    IN  [heap |-> h2, st |-> st, twist_array |-> twist_array,
         value |-> IF st.raised = "" THEN <<st.FM[1].CD * ObjectiveScale>>
                   ELSE <<>>]

\* ---- optimize -----------------------------------------------------------
\* twist = result.x
ReturnedTwist_onlyOnSuccess(res) == IF res.success THEN res.x ELSE <<>>
ReturnedTwist(res) == res.x

\* self.C_D = result.fun/1000.0
Unscale_byHundred(fun) == fun \div 100
Unscale(fun) == fun \div ReportScale

\* s = np.linspace(0.0, 0.5, self._N)
ReturnedStations(N) == linspace(<<1, 2>>, N)

\* ---- get_distributions --------------------------------------------------
\* np.array(dist[...]["span_frac"])*0.5
Half(r) == <<r[1], 2 * r[2]>>

Distributions(me) ==
    IF ~IsSet(me.scene) THEN [status |-> "AttributeError"]
    ELSE IF me.scene[1].aircraft = <<>> THEN [status |-> "KeyError"]
    ELSE IF ~IsSet(me.alpha) THEN [status |-> "AttributeError"]
    ELSE LET tab == Wing(me.scene[1]).twist IN
         [status |-> "ok",
          s |-> [i \in 1..Len(tab) |-> Half(tab[i][1])],
          twist |-> TwistColumn(tab),
          alpha |-> me.alpha[1].value,
          CL |-> me.CL[1],
          scene |-> me.scene[1].id]

\* ---- the state machine --------------------------------------------------
Velocities == {100}
Densities == {0, 2}
LiftCoefficients == {1, 2}

\* The caller holds a wing input dictionary; no optimizer exists yet.
Init ==
    /\ pc = "new"
    /\ \E g \in Geometries : heap = [r \in {"wing_input"} |-> g]
    /\ self = [wing_input |-> Unset, V |-> Unset, rho |-> Unset, N |-> Unset,
               CL |-> Unset, alpha |-> Unset, C_D |-> Unset, scene |-> Unset]
    /\ evals = <<>>
    /\ result = Unset
    /\ ret = Unset
    /\ dist = Unset
    /\ outcome = [kind |-> "none", exc |-> "", by |-> ""]
    /\ runs = 0
    /\ sceneCount = 0

\* TwistOptimizer(wing_input, V, rho)
Construct(V, rho) ==
    /\ pc = "new"
    /\ IF HasDesignSection(heap["wing_input"])
       THEN /\ self' = [self EXCEPT !.wing_input = <<"wing_input">>,
                                    !.V = <<V>>, !.rho = <<rho>>]
            /\ pc' = "idle"
            /\ UNCHANGED outcome
       ELSE /\ self' = [self EXCEPT !.wing_input = <<"wing_input">>]
            /\ pc' = "init_failed"
            /\ outcome' = [kind |-> "raised", exc |-> "IOError", by |-> "__init__"]
    /\ UNCHANGED <<heap, evals, result, ret, dist, runs, sceneCount>>

\* optimize(N_twist_stations, CL) up to the call of opt.minimize
OptimizeStart(N, CL) ==
    /\ pc = "idle"
    /\ runs < MaxRuns
    /\ Len(evals) < MaxEvals
    /\ self' = [self EXCEPT !.N = <<N>>, !.CL = <<CL>>]
    /\ pc' = "minimize"
    /\ runs' = runs + 1
    /\ result' = Unset
    /\ ret' = Unset
    /\ outcome' = [kind |-> "none", exc |-> "", by |-> ""]
    /\ UNCHANGED <<heap, evals, dist, sceneCount>>

ThisRun == {k \in 1..Len(evals) : evals[k].run = runs}

\* twist0 = np.zeros(self._N), the minimiser's first point
twist0 == zeros(self.N[1])

\* The minimiser calls the objective at x.  An exception of the objective
\* leaves opt.minimize and optimize, whose remaining statements do not run.
Evaluate(x) ==
    /\ pc = "minimize"
    /\ Len(evals) < MaxEvals
    /\ ThisRun = {} => x = twist0
    /\ LET r == GetInducedDrag(self, heap, sceneCount, x) IN
        /\ heap' = r.heap
        /\ self' = [self EXCEPT !.scene = r.st.scene, !.alpha = r.st.alpha]
        /\ sceneCount' = r.st.count
        /\ evals' = Append(evals, [run |-> runs, twist |-> x,
                                   CL |-> self.CL[1],
                                   twist_array |-> r.twist_array,
                                   value |-> r.value, FM |-> r.st.FM,
                                   calls |-> r.st.calls,
                                   raised |-> r.st.raised])
        /\ IF r.st.raised = ""
           THEN pc' = "minimize" /\ UNCHANGED outcome
           ELSE /\ pc' = "idle"
                /\ outcome' = [kind |-> "raised", exc |-> r.st.raised,
                               by |-> r.st.calls[Len(r.st.calls)].op]
    /\ UNCHANGED <<result, ret, dist, runs>>

\* opt.minimize returns the k-th point it evaluated, converged or not, and
\* optimize runs to its return statement.
MinimizeReturn(k, success) ==
    /\ pc = "minimize"
    /\ k \in ThisRun
    /\ LET res == [x |-> evals[k].twist, fun |-> evals[k].value[1],
                   success |-> success] IN
        /\ result' = <<res>>
        /\ self' = [self EXCEPT !.C_D = <<Unscale(res.fun)>>]
        /\ ret' = <<[s |-> ReturnedStations(self.N[1]),
                     twist |-> ReturnedTwist(res)]>>
    /\ pc' = "idle"
    /\ outcome' = [kind |-> "returned", exc |-> "", by |-> ""]
    /\ UNCHANGED <<heap, evals, dist, runs, sceneCount>>

\* get_distributions()
GetDistributions ==
    /\ pc = "idle"
    /\ dist' = <<Distributions(self)>>
    /\ UNCHANGED <<pc, heap, self, evals, result, ret, outcome, runs, sceneCount>>

Next ==
    \/ \E V \in Velocities, rho \in Densities : Construct(V, rho)
    \/ \E N \in 2..MaxN, CL \in LiftCoefficients : OptimizeStart(N, CL)
    \/ \E N \in 2..MaxN : \E x \in TwistVectors(N) :
          Len(x) = (IF IsSet(self.N) THEN self.N[1] ELSE 0) /\ Evaluate(x)
    \/ \E k \in 1..MaxEvals + 1, success \in BOOLEAN : MinimizeReturn(k, success)
    \/ GetDistributions

Spec == Init /\ [][Next]_vars

\* ---- properties ---------------------------------------------------------
Returned == outcome.kind = "returned"

\* The raw drag coefficient of twist vector v at lift coefficient CL: the
\* solver's answer for a scene holding that one wing, trimmed to CL.
RawDragCoefficient(v, CL) ==
    LET tab == TwistArray(linspace(<<1, 1>>, Len(v)), v)
        w0 == [name |-> "wing", twist |-> tab, velocity |-> 100, alpha |-> 0]
        sc0 == [id |-> 0, density |-> 2, aircraft |-> <<w0>>]
        sc1 == [sc0 EXCEPT !.aircraft[1].alpha = TrimAlpha(sc0, CL)]
    IN  WingCD(sc1)

SceneIds(k) == {evals[k].calls[i].scene : i \in 1..Len(evals[k].calls)}

\* C1: construction with a wing input that has no section named
\* design_section ends with IOError raised from __init__, and nothing of an
\* optimization exists then: no scene was created, no objective evaluation
\* ran, and _N, _CL, alpha, C_D and _scene are not set.
C1_ConstructionFailsFast ==
    (pc /= "new" /\ "design_section" \notin heap["wing_input"].sections) =>
        /\ pc = "init_failed"
        /\ outcome = [kind |-> "raised", exc |-> "IOError", by |-> "__init__"]
        /\ sceneCount = 0 /\ evals = <<>> /\ runs = 0
        /\ self.N = Unset /\ self.CL = Unset /\ self.alpha = Unset
        /\ self.C_D = Unset /\ self.scene = Unset

C1_Witness ==
    /\ pc = "init_failed"
    /\ heap["wing_input"].sections = {"winglets"}

\* C2: after optimize has returned, the retained scene holds the wing with
\* the returned twist vector and the retained alpha is the trim angle of
\* that scene.
C2_RetainedStateIsOptimum ==
    Returned =>
        /\ IsSet(self.scene) /\ IsSet(self.alpha)
        /\ TwistColumn(Wing(self.scene[1]).twist) = ret[1].twist
        /\ self.alpha[1].scene = self.scene[1].id

\* C3: the station array returned by optimize is the station sequence the
\* objective paired with the candidate twist values: the same number of
\* points and the same coordinate at every index.
C3_OneSpanConvention ==
    Returned =>
        \A k \in ThisRun :
            LET so == StationColumn(evals[k].twist_array) IN
            /\ Len(so) = Len(ret[1].s)
            /\ \A i \in 1..Len(so) : RatEq(so[i], ret[1].s[i])

\* C4: every value the objective returns is 1000 times the raw drag
\* coefficient of its twist vector, and after optimize C_D times 1000 is
\* the minimiser's final objective value, so that C_D is the raw drag
\* coefficient of the returned twist vector.
C4_ScalingRoundTrip ==
    /\ \A k \in 1..Len(evals) :
          IsSet(evals[k].value) =>
              evals[k].value[1] = 1000 * RawDragCoefficient(evals[k].twist, evals[k].CL)
    /\ Returned =>
          /\ self.C_D[1] * 1000 = result[1].fun
          /\ self.C_D[1] = RawDragCoefficient(result[1].x, self.CL[1])

C4_Witness ==
    /\ Returned
    /\ Len(evals) >= 2
    /\ result[1].x /= zeros(Len(result[1].x))
    /\ self.C_D[1] > 0

\* C5: two objective evaluations of the same twist vector under the same
\* geometry and flight condition end alike, with the same value or both
\* with an exception, whatever was evaluated before or between them.
C5_EvaluationsIndependent ==
    \A i, j \in 1..Len(evals) :
        (evals[i].twist = evals[j].twist /\ evals[i].CL = evals[j].CL) =>
            /\ evals[i].value = evals[j].value
            /\ evals[i].raised = evals[j].raised

C5_Witness ==
    /\ Len(evals) = 3
    /\ evals[1].twist = evals[3].twist /\ evals[1].CL = evals[3].CL
    /\ evals[2].twist /= evals[1].twist
    /\ IsSet(evals[1].value) /\ IsSet(evals[2].value) /\ IsSet(evals[3].value)

\* C6: no step changes the caller's wing input dictionary, and once the
\* optimizer is constructed no step changes its reference to that
\* dictionary or the stored V and rho.
C6_InputsNeverMutated ==
    [][/\ heap'["wing_input"] = heap["wing_input"]
       /\ pc /= "new" => /\ self'.wing_input = self.wing_input
                         /\ self'.V = self.V
                         /\ self'.rho = self.rho]_vars

C6_Witness ==
    /\ Returned
    /\ IsSet(dist) /\ dist[1].status = "ok"
    /\ "wing_dict" \in DOMAIN heap
    /\ heap["wing_dict"].twist /= heap["wing_input"].twist
    /\ heap["wing_input"].twist /= << >>

\* C7: a trim failure never ends optimize with an exception; the objective
\* returns a value for that candidate.
C7_TrimFailurePenalised ==
    /\ ~(outcome.kind = "raised" /\ outcome.by = "target_CL")
    /\ \A k \in 1..Len(evals) :
          evals[k].raised = "TrimError" => IsSet(evals[k].value)

\* C8: when the minimiser has returned without converging, optimize has
\* returned all the same, with the minimiser's vector, a station array of
\* N points and C_D recorded from the minimiser's objective value.
C8_NonConvergenceNotFatal ==
    (IsSet(result) /\ ~result[1].success) =>
        /\ Returned
        /\ IsSet(ret)
        /\ ret[1].twist = result[1].x
        /\ Len(ret[1].s) = self.N[1]
        /\ IsSet(self.C_D)
        /\ self.C_D[1] * 1000 = result[1].fun

C8_Witness ==
    /\ Returned
    /\ ~result[1].success
    /\ Len(evals) >= 2

\* C9: every objective evaluation calls the solver in the order Scene,
\* add_aircraft, target_CL, solve_forces, up to the call that raised.  It
\* constructs one scene (none when the constructor itself raised), a scene
\* no earlier evaluation used, and makes all its calls on that scene.  An
\* evaluation that returns made all four calls, and its value is 1000 times
\* the drag of the force solve that followed the trim on that scene.
C9_FreshSceneInOrder ==
    \A k \in 1..Len(evals) :
        LET c == evals[k].calls
            order == <<"Scene", "add_aircraft", "target_CL", "solve_forces">>
        IN  /\ Len(c) \in 1..4
            /\ \A i \in 1..Len(c) : c[i].op = order[i] /\ c[i].scene = c[1].scene
            /\ c[1].scene = 0 => Len(c) = 1 /\ evals[k].raised /= ""
            /\ c[1].scene /= 0 => \A j \in 1..(k - 1) : c[1].scene \notin SceneIds(j)
            /\ evals[k].raised = "" =>
                  /\ Len(c) = 4
                  /\ c[1].scene /= 0
                  /\ evals[k].FM[1].scene = c[1].scene
                  /\ evals[k].FM[1].after = 3
                  /\ evals[k].value[1] = 1000 * evals[k].FM[1].CD
                  /\ evals[k].FM[1].CD = RawDragCoefficient(evals[k].twist, evals[k].CL)

C9_Witness ==
    /\ Len(evals) = 3
    /\ \A k \in 1..3 : evals[k].raised = ""
    /\ evals[3].calls[4] = [op |-> "solve_forces", scene |-> 3]

\* C10: between objective evaluations the retained scene and the retained
\* alpha are either both absent or both the work of one evaluation that
\* completed.
C10_RetainedStateConsistent ==
    \/ self.scene = Unset /\ self.alpha = Unset
    \/ /\ IsSet(self.scene) /\ IsSet(self.alpha)
       /\ self.alpha[1].scene = self.scene[1].id
       /\ \E k \in 1..Len(evals) :
             /\ evals[k].raised = ""
             /\ evals[k].FM[1].scene = self.scene[1].id

====
